---------------------------- MODULE Spec2Model ----------------------------
(***************************************************************************)
(* nudge-rs: updating the access and modification timestamps of a path,    *)
(* with a creation method (NoCreate, NonRecursive<I>, Recursive<I>) and a  *)
(* resolution method (FollowSymlinks, UpdateSymlinks), on the POSIX        *)
(* backend (src/sys/posix.rs) and the Windows backend (src/sys/windows.rs).*)
(*                                                                         *)
(* The state is the file system the library acts on, the descriptor table  *)
(* of the process, the thread's last OS error, and the position of the one *)
(* touch call in progress.  Every operating-system call of the source is   *)
(* one step; the order of the steps is the order of the calls in the code. *)
(***************************************************************************)
EXTENDS Integers, Sequences, FiniteSets, TLC

(***************************************************************************)
(* Bounds of the model.                                                    *)
(***************************************************************************)
\* Longest path of the directory chain a, a/a, a/a/a, ...
MaxDepth == 3

(***************************************************************************)
(* 64-bit unsigned arithmetic.  TLC's integers are 32 bits wide, so a u64  *)
(* is four 16-bit limbs, least significant first, and every operation      *)
(* works limb by limb with the carries the hardware has.                   *)
(***************************************************************************)
Limb == 2^16

U64Zero == <<0, 0, 0, 0>>

\* n as u64, for 0 <= n < 2^31
U64FromNat(n) == <<n % Limb, (n \div Limb) % Limb, 0, 0>>

\* x + y: the sum modulo 2^64 and the carry out
U64Add(x, y) ==
  LET s1 == x[1] + y[1]
      s2 == x[2] + y[2] + (s1 \div Limb)
      s3 == x[3] + y[3] + (s2 \div Limb)
      s4 == x[4] + y[4] + (s3 \div Limb)
  IN  [val |-> <<s1 % Limb, s2 % Limb, s3 % Limb, s4 % Limb>>,
       carry |-> s4 \div Limb]

\* x - y: the difference modulo 2^64 and the borrow out (1 when y > x)
U64Sub(x, y) ==
  LET d1 == x[1] - y[1]
      b1 == IF d1 < 0 THEN 1 ELSE 0
      d2 == x[2] - y[2] - b1
      b2 == IF d2 < 0 THEN 1 ELSE 0
      d3 == x[3] - y[3] - b2
      b3 == IF d3 < 0 THEN 1 ELSE 0
      d4 == x[4] - y[4] - b3
      b4 == IF d4 < 0 THEN 1 ELSE 0
  IN  [val |-> <<d1 % Limb, d2 % Limb, d3 % Limb, d4 % Limb>>,
       borrow |-> b4]

\* x * k modulo 2^64, for a small factor 0 <= k <= 10000
U64MulSmall(x, k) ==
  LET p1 == x[1] * k
      p2 == x[2] * k + (p1 \div Limb)
      p3 == x[3] * k + (p2 \div Limb)
      p4 == x[4] * k + (p3 \div Limb)
  IN  <<p1 % Limb, p2 % Limb, p3 % Limb, p4 % Limb>>

\* x divided by a small divisor 0 < k <= 10000: quotient and remainder
U64DivSmall(x, k) ==
  LET q4 == x[4] \div k
      r4 == x[4] % k
      n3 == r4 * Limb + x[3]
      q3 == n3 \div k
      r3 == n3 % k
      n2 == r3 * Limb + x[2]
      q2 == n2 \div k
      r2 == n2 % k
      n1 == r2 * Limb + x[1]
      q1 == n1 \div k
      r1 == n1 % k
  IN  [quot |-> <<q1, q2, q3, q4>>, rem |-> r1]

\* x < y
U64Less(x, y) == U64Sub(x, y).borrow = 1

(***************************************************************************)
(* std::time.  A SystemTime is held as the outcome of                      *)
(* t.duration_since(UNIX_EPOCH): Ok(d) when t is at or after the epoch     *)
(* (before = FALSE) and Err(e) with e.duration() = d when t is before it   *)
(* (before = TRUE, d > 0).  A Duration is whole seconds (u64) and          *)
(* sub-second nanoseconds.  An Option<SystemTime> carries the flag `some`. *)
(***************************************************************************)
NanosPerSec == 1000 * 1000 * 1000

None == [some |-> FALSE, before |-> FALSE, secs |-> U64Zero, nanos |-> 0]

Some(before, secs, nanos) ==
  [some |-> TRUE, before |-> before, secs |-> secs, nanos |-> nanos]


\* Duration + Duration (checked_add: panics when the seconds overflow u64)
DurationAdd(a, b) ==
  LET n  == a.nanos + b.nanos
      c  == IF n >= NanosPerSec THEN 1 ELSE 0
      s1 == U64Add(a.secs, b.secs)
      s2 == U64Add(s1.val, U64FromNat(c))
  IN  [panic |-> s1.carry = 1 \/ s2.carry = 1,
       secs |-> s2.val,
       nanos |-> n - c * NanosPerSec]

\* Duration - Duration (checked_sub: panics when the result would be negative)
DurationSub(a, b) ==
  LET s1 == U64Sub(a.secs, b.secs)
      bw == IF a.nanos >= b.nanos THEN 0 ELSE 1
      s2 == U64Sub(s1.val, U64FromNat(bw))
  IN  [panic |-> s1.borrow = 1 \/ s2.borrow = 1,
       secs |-> s2.val,
       nanos |-> a.nanos + bw * NanosPerSec - b.nanos]

(***************************************************************************)
(* POSIX timestamps (src/sys/posix.rs).  time_t is a signed 64-bit number, *)
(* held as a sign and a magnitude; c_long holds tv_nsec.                   *)
(***************************************************************************)
\* libc::UTIME_OMIT, (1 << 30) - 2
UTIME_OMIT == 2^30 - 2

\* x as time_t, and -(x as time_t); zero has no sign
I64(neg, mag) == [neg |-> neg /\ mag # U64Zero, mag |-> mag]

\* The encoding of a time before the epoch by floor: the seconds rounded
\* down and a sub-second part that is never negative
posix_systemtime_floor(time) ==
  IF time.some
  THEN IF ~time.before
       THEN [tv_sec |-> I64(FALSE, time.secs), tv_nsec |-> time.nanos]
       ELSE IF time.nanos = 0
       THEN [tv_sec |-> I64(TRUE, time.secs), tv_nsec |-> 0]
       ELSE [tv_sec |-> I64(TRUE, U64Add(time.secs, U64FromNat(1)).val),
             tv_nsec |-> NanosPerSec - time.nanos]
  ELSE [tv_sec |-> I64(FALSE, U64Zero), tv_nsec |-> UTIME_OMIT]

\* The encoding with None written as the epoch instead of UTIME_OMIT
posix_systemtime_as_epoch(time) ==
  IF time.some
  THEN IF ~time.before
       THEN [tv_sec |-> I64(FALSE, time.secs), tv_nsec |-> time.nanos]
       ELSE [tv_sec |-> I64(TRUE, time.secs), tv_nsec |-> -time.nanos]
  ELSE [tv_sec |-> I64(FALSE, U64Zero), tv_nsec |-> 0]

\* FileTimes::systemtime_into_filetime of the POSIX backend
posix_systemtime_into_filetime(time) ==
  IF time.some
  THEN IF ~time.before
       THEN [tv_sec |-> I64(FALSE, time.secs), tv_nsec |-> time.nanos]
       ELSE [tv_sec |-> I64(TRUE, time.secs), tv_nsec |-> -time.nanos]
  ELSE [tv_sec |-> I64(FALSE, U64Zero), tv_nsec |-> UTIME_OMIT]

\* FileTimes::from_builder of the POSIX backend: the array [timespec; 2]
posix_from_builder(b) ==
  <<posix_systemtime_into_filetime(b.accessed),
    posix_systemtime_into_filetime(b.modified)>>

\* The kernel's test of a timespec given to utimensat or futimens
\* (EINVAL unless tv_nsec is UTIME_OMIT or in 0..999,999,999).
TimespecValid(ts) ==
  ts.tv_nsec = UTIME_OMIT \/ (0 <= ts.tv_nsec /\ ts.tv_nsec < NanosPerSec)

\* The time the kernel records for one field: the old one on UTIME_OMIT.
PosixApplyTime(old, ts) == IF ts.tv_nsec = UTIME_OMIT THEN old ELSE ts

\* The SystemTime a metadata read returns for a recorded timespec
\* (Metadata::accessed / Metadata::modified in tests::times).
posix_metadata_time(ts) ==
  IF ~ts.tv_sec.neg
  THEN Some(FALSE, ts.tv_sec.mag, ts.tv_nsec)
  ELSE LET d == DurationSub([secs |-> ts.tv_sec.mag, nanos |-> 0],
                            [secs |-> U64Zero, nanos |-> ts.tv_nsec])
       IN  Some(TRUE, d.secs, d.nanos)

(***************************************************************************)
(* Windows timestamps (src/sys/windows.rs).  A DWORD is two 16-bit limbs,  *)
(* low limb first; a FILETIME is its low and its high DWORD.               *)
(***************************************************************************)
\* Duration::from_secs(11644473600): 11644473600 = 2 * 2^32 + 46608 * 2^16 + 37120
unix_epoch == [secs |-> <<37120, 46608, 2, 0>>, nanos |-> 0]

\* The tick count with the sub-second part rounded to the nearest tick
WindowsTicksRounded(duration) ==
  U64Add(U64MulSmall(U64MulSmall(duration.secs, 10000), 1000),
         U64FromNat((duration.nanos + 50) \div 100)).val

\* as_secs() * 10000000 + (subsec_nanos() / 100) as u64
WindowsTicks(duration) ==
  U64Add(U64MulSmall(U64MulSmall(duration.secs, 10000), 1000),
         U64FromNat(duration.nanos \div 100)).val

\* The Duration of a present timestamp since 1601-01-01:
\* d + unix_epoch, or unix_epoch - e.duration()
WindowsDuration(time) ==
  LET d == [secs |-> time.secs, nanos |-> time.nanos]
  IN  IF ~time.before
      THEN DurationAdd(d, unix_epoch)
      ELSE DurationSub(unix_epoch, d)

\* Whether systemtime_into_filetime panics: the Duration arithmetic
\* overflows (for a time before 1601-01-01 the subtraction underflows).
windows_systemtime_panics(time) == time.some /\ WindowsDuration(time).panic

\* FileTimes::systemtime_into_filetime of the Windows backend
windows_systemtime_into_filetime(time) ==
  IF time.some
  THEN LET nanos == WindowsTicks(WindowsDuration(time))
       IN  [dwLowDateTime |-> <<nanos[1], nanos[2]>>,
            dwHighDateTime |-> <<nanos[3], nanos[4]>>]
  ELSE [dwLowDateTime |-> <<Limb - 1, Limb - 1>>,
        dwHighDateTime |-> <<Limb - 1, Limb - 1>>]

\* FileTimes::from_builder of the Windows backend: accessed, modified
windows_from_builder(b) ==
  <<windows_systemtime_into_filetime(b.accessed),
    windows_systemtime_into_filetime(b.modified)>>

\* The 64-bit value of a FILETIME
FiletimeU64(ft) ==
  <<ft.dwLowDateTime[1], ft.dwLowDateTime[2],
    ft.dwHighDateTime[1], ft.dwHighDateTime[2]>>

\* SetFileTime leaves a field alone when its FILETIME is all ones (or zero).
FiletimeKeeps(ft) ==
  \/ FiletimeU64(ft) = <<Limb - 1, Limb - 1, Limb - 1, Limb - 1>>
  \/ FiletimeU64(ft) = U64Zero

\* The time SetFileTime records for one field.
WindowsApplyTime(old, ft) == IF FiletimeKeeps(ft) THEN old ELSE ft

\* The SystemTime a metadata read returns for a recorded FILETIME
\* (Metadata::accessed / Metadata::modified in tests::times).
windows_metadata_time(ft) ==
  LET ticks == FiletimeU64(ft)
      q1 == U64DivSmall(ticks, 10000)
      q2 == U64DivSmall(q1.quot, 1000)
      since1601 == [secs |-> q2.quot,
                    nanos |-> (q2.rem * 10000 + q1.rem) * 100]
  IN  IF U64Less(since1601.secs, unix_epoch.secs)
      THEN LET d == DurationSub(unix_epoch, since1601)
           IN  Some(TRUE, d.secs, d.nanos)
      ELSE LET d == DurationSub(since1601, unix_epoch)
           IN  Some(FALSE, d.secs, d.nanos)

(***************************************************************************)
(* The file system.  The paths are the directory chain a, a/a, ... and the *)
(* two top-level names f and l; the root directory always exists.  An      *)
(* entry is absent ("none"), a regular file, a directory or a symbolic     *)
(* link; it carries its two timestamps in the platform's own encoding, the *)
(* length of its content, whether the caller may search it (a directory's  *)
(* execute permission) and, for a link, the path it points to.  Links live *)
(* at the top-level name l only, so no link is ever a proper prefix of a   *)
(* path.                                                                   *)
(***************************************************************************)
Chain(n) == [i \in 1..n |-> "a"]

Paths == {Chain(n) : n \in 1..MaxDepth} \cup {<<"f">>, <<"l">>}

\* Path::parent; the root is the empty sequence
Parent(p) == SubSeq(p, 1, Len(p) - 1)

Posix(o) == o \in {"linux", "unix"}

\* The clock, in the platform's encoding: a timespec on POSIX, a FILETIME
\* (100 ns ticks since 1601-01-01) on Windows.  Every entry that exists
\* before the first call carries the time 1000 s after the Unix epoch
\* (116444746000000000 ticks), and the clock reads 2000 s after the Unix
\* epoch (116444756000000000 ticks) during the calls.
ZeroTime(o) ==
  IF Posix(o)
  THEN [tv_sec |-> [neg |-> FALSE, mag |-> <<0, 0, 0, 0>>], tv_nsec |-> 0]
  ELSE [dwLowDateTime |-> <<0, 0>>, dwHighDateTime |-> <<0, 0>>]

OldTime(o) ==
  IF Posix(o)
  THEN [tv_sec |-> [neg |-> FALSE, mag |-> <<1000, 0, 0, 0>>], tv_nsec |-> 0]
  ELSE [dwLowDateTime |-> <<25600, 10570>>, dwHighDateTime |-> <<45537, 413>>]

Now(o) ==
  IF Posix(o)
  THEN [tv_sec |-> [neg |-> FALSE, mag |-> <<2000, 0, 0, 0>>], tv_nsec |-> 0]
  ELSE [dwLowDateTime |-> <<18432, 32086>>, dwHighDateTime |-> <<45539, 413>>]

NoEntry(o) ==
  [kind |-> "none", atime |-> ZeroTime(o), mtime |-> ZeroTime(o),
   size |-> 0, x |-> FALSE, target |-> <<>>]

NewFile(o) ==
  [kind |-> "file", atime |-> Now(o), mtime |-> Now(o),
   size |-> 0, x |-> FALSE, target |-> <<>>]

NewDir(o, x) ==
  [kind |-> "dir", atime |-> Now(o), mtime |-> Now(o),
   size |-> 0, x |-> x, target |-> <<>>]

\* An entry was added to or removed from directory p: its mtime moves.
TouchParent(o, f, p) ==
  IF Parent(p) = <<>>
  THEN f
  ELSE [f EXCEPT ![Parent(p)].mtime = Now(o)]

\* The error of walking the proper prefixes of p: each must be a directory
\* the caller may search.
PrefixError(f, p) ==
  LET bad == {i \in 1..(Len(p) - 1) :
                ~(f[SubSeq(p, 1, i)].kind = "dir" /\ f[SubSeq(p, 1, i)].x)}
  IN  IF bad = {}
      THEN "ok"
      ELSE LET i == CHOOSE j \in bad : \A k \in bad : j <= k
               e == f[SubSeq(p, 1, i)]
           IN  CASE e.kind = "none" -> "ENOENT"
                 [] e.kind = "dir" -> "EACCES"
                 [] OTHER -> "ENOTDIR"

\* Path resolution: the error of the walk and the path the name denotes
\* (whose entry may be absent).  With `follow` a final symbolic link is
\* replaced by its target.
Lookup(f, p, follow) ==
  LET pe == PrefixError(f, p)
  IN  IF pe # "ok" THEN [err |-> pe, at |-> p]
      ELSE IF follow /\ f[p].kind = "link"
      THEN LET t == f[p].target
               te == PrefixError(f, t)
           IN  IF te # "ok" THEN [err |-> te, at |-> t]
               ELSE IF f[t].kind = "link" THEN [err |-> "ELOOP", at |-> t]
               ELSE [err |-> "ok", at |-> t]
      ELSE [err |-> "ok", at |-> p]

\* Path::is_dir
IsDir(f, p) ==
  LET l == Lookup(f, p, TRUE)
  IN  l.err = "ok" /\ f[l.at].kind = "dir"

\* io::Error::kind of an OS error code
ErrorKind(e) ==
  CASE e \in {"ENOENT", "ERROR_FILE_NOT_FOUND", "ERROR_PATH_NOT_FOUND"} -> "NotFound"
    [] e \in {"EACCES", "EPERM", "ERROR_ACCESS_DENIED"} -> "PermissionDenied"
    [] e \in {"EEXIST", "ERROR_ALREADY_EXISTS"} -> "AlreadyExists"
    [] e = "EINVAL" -> "InvalidInput"
    [] OTHER -> "Other"

\* The lowest descriptor number not in use
LowestFree(d) ==
  CHOOSE n \in 0..(Cardinality(d) + 1) :
    /\ \A h \in d : h.fd # n
    /\ \A m \in 0..(n - 1) : \E h \in d : h.fd = m

(***************************************************************************)
(* The POSIX calls the backend makes.  Each gives the value the call       *)
(* returns, the error it leaves in errno ("ok": errno is not written) and  *)
(* the file system and descriptor table after it.                          *)
(***************************************************************************)
\* libc::utimensat(AT_FDCWD, p, times, flag); nofollow is AT_SYMLINK_NOFOLLOW.
\* Linux returns 0 without looking at the path when both fields are
\* UTIME_OMIT, and looks the path up before it tests the timespecs; the
\* other systems test the timespecs first and always look the path up.
libc_utimensat(o, f, p, tms, nofollow) ==
  LET l == Lookup(f, p, ~nofollow)
      omit == tms[1].tv_nsec = UTIME_OMIT /\ tms[2].tv_nsec = UTIME_OMIT
      valid == TimespecValid(tms[1]) /\ TimespecValid(tms[2])
      absent == IF l.err # "ok" THEN l.err
                ELSE IF f[l.at].kind = "none" THEN "ENOENT" ELSE "ok"
      Fail(e) == [ret |-> -1, err |-> e, fs |-> f]
      done == [ret |-> 0, err |-> "ok",
               fs |-> [f EXCEPT ![l.at].atime = PosixApplyTime(@, tms[1]),
                                ![l.at].mtime = PosixApplyTime(@, tms[2])]]
  IN  IF o = "linux"
      THEN IF omit THEN [ret |-> 0, err |-> "ok", fs |-> f]
           ELSE IF absent # "ok" THEN Fail(absent)
           ELSE IF ~valid THEN Fail("EINVAL")
           ELSE done
      ELSE IF ~valid THEN Fail("EINVAL")
           ELSE IF absent # "ok" THEN Fail(absent)
           ELSE done

\* libc::futimens(fd, times).  A negative or closed descriptor is EBADF; a
\* standard stream (no path) takes the times without a change to the model's
\* file system.
libc_futimens(o, f, d, fd, tms) ==
  LET omit == tms[1].tv_nsec = UTIME_OMIT /\ tms[2].tv_nsec = UTIME_OMIT
      valid == TimespecValid(tms[1]) /\ TimespecValid(tms[2])
      open == {h \in d : h.fd = fd}
      at == (CHOOSE h \in open : TRUE).at
      Fail(e) == [ret |-> -1, err |-> e, fs |-> f]
  IN  IF fd < 0 THEN Fail("EBADF")
      ELSE IF o = "linux" /\ omit THEN [ret |-> 0, err |-> "ok", fs |-> f]
      ELSE IF open = {} THEN Fail("EBADF")
      ELSE IF ~valid THEN Fail("EINVAL")
      ELSE IF at = <<>> THEN [ret |-> 0, err |-> "ok", fs |-> f]
      ELSE [ret |-> 0, err |-> "ok",
            fs |-> [f EXCEPT ![at].atime = PosixApplyTime(@, tms[1]),
                             ![at].mtime = PosixApplyTime(@, tms[2])]]

\* libc::open(p, O_WRONLY | O_CREAT | O_TRUNC | oflag, 0o666): the set of
\* possible outcomes; directory is oflag = O_DIRECTORY.  Without O_DIRECTORY
\* an existing regular file is truncated (its length becomes 0 and its mtime
\* the current time), an absent one is created empty, and a directory cannot
\* be opened for writing.  With O_CREAT | O_DIRECTORY the call never returns
\* a descriptor: a kernel either rejects the flags (EINVAL), or fails on what
\* it finds, after creating a regular file when the path is absent.
libc_open(o, f, d, p, directory) ==
  LET l == Lookup(f, p, TRUE)
      n == LowestFree(d)
      Fail(e, g) == [ret |-> -1, err |-> e, fs |-> g, fds |-> d]
      Opened(g) == [ret |-> n, err |-> "ok", fs |-> g,
                    fds |-> d \cup {[fd |-> n, at |-> l.at]}]
      created == TouchParent(o, [f EXCEPT ![l.at] = NewFile(o)], l.at)
      truncated == [f EXCEPT ![l.at].size = 0, ![l.at].mtime = Now(o)]
  IN  IF l.err # "ok" THEN {Fail(l.err, f)}
      ELSE IF directory
      THEN {Fail("EINVAL", f),
            CASE f[l.at].kind = "dir" -> Fail("EISDIR", f)
              [] f[l.at].kind = "file" -> Fail("ENOTDIR", f)
              [] OTHER -> Fail("ENOTDIR", created)}
      ELSE CASE f[l.at].kind = "dir" -> {Fail("EISDIR", f)}
             [] f[l.at].kind = "file" -> {Opened(truncated)}
             [] OTHER -> {Opened(created)}

\* libc::close(fd)
libc_close(d, fd) ==
  IF \E h \in d : h.fd = fd
  THEN [ret |-> 0, err |-> "ok", fds |-> {h \in d : h.fd # fd}]
  ELSE [ret |-> -1, err |-> "EBADF", fds |-> d]

(***************************************************************************)
(* Creating directories: mkdir / CreateDirectoryW, and std's               *)
(* DirBuilder::create with recursive(true).  x is whether the new          *)
(* directory may be searched: mode 0o666 has no execute bit.               *)
(***************************************************************************)
\* mkdir(p, mode) and CreateDirectoryW(p, NULL)
MakeDir(o, f, p, x) ==
  LET pe == PrefixError(f, p)
      missing == IF Posix(o) THEN "ENOENT" ELSE "ERROR_PATH_NOT_FOUND"
      exists == IF Posix(o) THEN "EEXIST" ELSE "ERROR_ALREADY_EXISTS"
      denied == IF Posix(o) THEN pe ELSE "ERROR_PATH_NOT_FOUND"
  IN  IF pe = "ENOENT" THEN [err |-> missing, fs |-> f]
      ELSE IF pe # "ok" THEN [err |-> denied, fs |-> f]
      ELSE IF f[p].kind # "none" THEN [err |-> exists, fs |-> f]
      ELSE [err |-> "ok",
            fs |-> TouchParent(o, [f EXCEPT ![p] = NewDir(o, x)], p)]

\* DirBuilder::new().recursive(true).create(p): create p and every missing
\* ancestor, parents first; an error is dropped when the path is a directory.
\* all[n] is create_dir_all of the first n names of p, which the recursion
\* always enters with the file system f it was first called with.
create_dir_all(o, f, p, x) ==
  LET all[n \in 0..Len(p)] ==
        IF n = 0 THEN [err |-> "ok", fs |-> f]
        ELSE LET q == SubSeq(p, 1, n)
                 r == MakeDir(o, f, q, x)
                 up == all[n - 1]
                 r2 == MakeDir(o, up.fs, q, x)
             IN  IF r.err = "ok" THEN r
                 ELSE IF ErrorKind(r.err) = "NotFound"
                 THEN IF up.err # "ok" THEN up
                      ELSE IF r2.err = "ok" \/ IsDir(up.fs, q)
                      THEN [err |-> "ok", fs |-> r2.fs]
                      ELSE r2
                 ELSE IF IsDir(f, q) THEN [err |-> "ok", fs |-> f]
                 ELSE r
  IN  all[Len(p)]

(***************************************************************************)
(* The Windows calls the backend makes.                                    *)
(***************************************************************************)
\* CreateFileW(p, FILE_WRITE_ATTRIBUTES, share, NULL, disp,
\* FILE_FLAG_BACKUP_SEMANTICS | flags, NULL).  always is disp = OPEN_ALWAYS
\* (OPEN_EXISTING otherwise), reparse is flags = FILE_FLAG_OPEN_REPARSE_POINT.
\* ret is the new handle, or -1 for INVALID_HANDLE_VALUE.  OPEN_ALWAYS opens
\* an existing entry as it is and creates an absent one as an empty file.
CreateFileW(f, d, p, always, reparse) ==
  LET l == Lookup(f, p, ~reparse)
      n == LowestFree(d)
      Fail(e) == [ret |-> -1, err |-> e, fs |-> f, fds |-> d]
      Opened(g) == [ret |-> n, err |-> "ok", fs |-> g,
                    fds |-> d \cup {[fd |-> n, at |-> l.at]}]
  IN  IF l.err # "ok" THEN Fail("ERROR_PATH_NOT_FOUND")
      ELSE IF f[l.at].kind # "none" THEN Opened(f)
      ELSE IF always
      THEN Opened(TouchParent("windows",
                              [f EXCEPT ![l.at] = NewFile("windows")], l.at))
      ELSE Fail("ERROR_FILE_NOT_FOUND")

\* SetFileTime(h, NULL, accessed, modified)
SetFileTime(f, d, h, tms) ==
  LET open == {k \in d : k.fd = h}
      at == (CHOOSE k \in open : TRUE).at
  IN  IF open = {} THEN [ret |-> 0, err |-> "ERROR_INVALID_HANDLE", fs |-> f]
      ELSE [ret |-> 1, err |-> "ok",
            fs |-> [f EXCEPT ![at].atime = WindowsApplyTime(@, tms[1]),
                             ![at].mtime = WindowsApplyTime(@, tms[2])]]

\* CloseHandle(h)
CloseHandle(d, h) ==
  IF \E k \in d : k.fd = h
  THEN [ret |-> 1, err |-> "ok", fds |-> {k \in d : k.fd # h}]
  ELSE [ret |-> 0, err |-> "ERROR_INVALID_HANDLE", fds |-> d]

(***************************************************************************)
(* The state.                                                              *)
(***************************************************************************)
VARIABLES
  os,          \* the platform the crate is built for: "linux", "unix", "windows"
  fs,          \* the file system: the entry of each path
  fds,         \* the descriptors / handles the process holds open
  errno,       \* the thread's last OS error (errno, GetLastError)
  pc,          \* the position of the touch call in progress
  creation,    \* the call's creation method C: [method, item]
  resolution,  \* the call's resolution method R
  builder,     \* the call's Builder: [accessed, modified]
  path,        \* the call's path
  times,       \* the FileTimes the call has computed, <<>> before that
  handle,      \* the descriptor in the call's FileHandle, <<>> when none
  result,      \* what the call returned: [status, err]
  log,         \* the OS calls of the call so far, in order
  fs0          \* the file system when the call started

vars == <<os, fs, fds, errno, pc, creation, resolution, builder, path,
          times, handle, result, log, fs0>>

\* The type parameters of TouchOptions<C, R>
CreationMethods ==
  {[method |-> "NoCreate", item |-> "None"]}
    \cup [method : {"NonRecursive", "Recursive"}, item : {"File", "Directory"}]

ResolutionMethods == {"FollowSymlinks", "UpdateSymlinks"}

\* The timestamps a Builder of the model may hold: 3000.0000005 s after the
\* epoch, 11,644,473,600 s before it (1601-01-01, the origin of FILETIME),
\* and half a second before it.
TimeValues ==
  {Some(FALSE, U64FromNat(3000), 500),
   Some(TRUE, unix_epoch.secs, 0),
   Some(TRUE, U64Zero, 500 * 1000 * 1000)}

Builders == [accessed : {None} \cup TimeValues, modified : {None} \cup TimeValues]

\* Builder::new()
NewBuilder == [accessed |-> None, modified |-> None]

\* The file systems a behaviour may start from: f is a one-byte file; the
\* chain is empty, or a is a directory (one the caller may search or, on
\* POSIX, one without search permission), or a is a one-byte file; l is a
\* link to f or to a.
OldFile(o) ==
  [kind |-> "file", atime |-> OldTime(o), mtime |-> OldTime(o),
   size |-> 1, x |-> FALSE, target |-> <<>>]

OldDir(o) ==
  [kind |-> "dir", atime |-> OldTime(o), mtime |-> OldTime(o),
   size |-> 0, x |-> TRUE, target |-> <<>>]

LockedDir(o) ==
  [kind |-> "dir", atime |-> OldTime(o), mtime |-> OldTime(o),
   size |-> 0, x |-> FALSE, target |-> <<>>]

OldLink(o, t) ==
  [kind |-> "link", atime |-> OldTime(o), mtime |-> OldTime(o),
   size |-> 0, x |-> FALSE, target |-> t]

InitialFs(o) ==
  {[p \in Paths |->
      IF p = <<"f">> THEN OldFile(o)
      ELSE IF p = <<"l">> THEN OldLink(o, t)
      ELSE IF p = <<"a">> THEN a
      ELSE NoEntry(o)] :
   a \in {NoEntry(o), OldDir(o), OldFile(o)}
           \cup (IF Posix(o) THEN {LockedDir(o)} ELSE {}),
   t \in {<<"f">>, <<"a">>}}

\* The standard streams; a process may have been started with stdin closed.
StdFds == {[fd |-> n, at |-> <<>>] : n \in 0..2}

InitialFds(o) ==
  IF Posix(o)
  THEN {StdFds, {h \in StdFds : h.fd # 0}}
  ELSE {{}}

NoResult == [status |-> "none", err |-> "ok"]
Ok == [status |-> "Ok", err |-> "ok"]
Err(e) == [status |-> "Err", err |-> e]
Panic == [status |-> "Panic", err |-> "ok"]

Init ==
  /\ os \in {"linux", "unix", "windows"}
  /\ fs \in InitialFs(os)
  /\ fds \in InitialFds(os)
  /\ errno = "ok"
  /\ pc = "idle"
  /\ creation = [method |-> "NoCreate", item |-> "None"]
  /\ resolution = "FollowSymlinks"
  /\ builder = NewBuilder
  /\ path = <<"f">>
  /\ times = <<>>
  /\ handle = <<>>
  /\ result = NoResult
  /\ log = <<>>
  /\ fs0 = fs

\* One OS call in the log: its name, the path or descriptor it was given,
\* the error it returned, and whether it is a call that creates the path
\* when it is absent.
Logged(call, arg, ret, err, creates) ==
  Append(log, [call |-> call, arg |-> arg, ret |-> ret, err |-> err,
               creates |-> creates])

\* The error left in errno after a call
Errno(e) == IF e = "ok" THEN errno ELSE e

(***************************************************************************)
(* Entering a call: TouchOptions::<C, R>::touch(builder, path).            *)
(***************************************************************************)
Touch(c, r, b, p) ==
  /\ pc = "idle"
  /\ creation' = c
  /\ resolution' = r
  /\ builder' = b
  /\ path' = p
  /\ times' = <<>>
  /\ handle' = <<>>
  /\ result' = NoResult
  /\ log' = <<>>
  /\ fs0' = fs
  /\ pc' = IF c.method = "Recursive" THEN "recursive"
           ELSE IF Posix(os) THEN "update_existing"
           ELSE IF c = [method |-> "NonRecursive", item |-> "Directory"]
           THEN "create_directory"
           ELSE "open"
  /\ UNCHANGED <<os, fs, fds, errno>>

(***************************************************************************)
(* The POSIX backend, src/sys/posix.rs.                                    *)
(***************************************************************************)
\* FileHandle::open's test of the descriptor libc::open returned
posix_fd_ok(fd) == fd <= 0

\* Whether NonRecursive<I>::touch goes on to update_new_* after the
\* existing-path update failed with error e: or_else(|_| ...)
posix_falls_back(e) == TRUE

\* Recursive<I>::touch: DirBuilder::new().recursive(true).mode(0o666)
\* .create(parent), then NonRecursive<I>::touch
PosixRecursive ==
  /\ pc = "recursive"
  /\ Posix(os)
  /\ LET r == create_dir_all(os, fs, Parent(path), FALSE)
     IN  /\ fs' = r.fs
         /\ errno' = Errno(r.err)
         /\ log' = Logged("create_dir_all", Parent(path), -1, r.err, FALSE)
         /\ IF r.err = "ok"
            THEN pc' = "update_existing" /\ result' = result
            ELSE pc' = "done" /\ result' = Err(r.err)
  /\ UNCHANGED <<os, fds, creation, resolution, builder, path, times, handle,
                 fs0>>

\* NoCreate::touch: update_existing_follow / update_existing_update, that is
\* utimensat with flag 0 / AT_SYMLINK_NOFOLLOW; NonRecursive<I>::touch hands
\* its error to or_else
PosixUpdateExisting ==
  /\ pc = "update_existing"
  /\ LET tms == posix_from_builder(builder)
         r == libc_utimensat(os, fs, path, tms, resolution = "UpdateSymlinks")
     IN  /\ times' = tms
         /\ fs' = r.fs
         /\ errno' = Errno(r.err)
         /\ log' = Logged("utimensat", path, -1, r.err, FALSE)
         /\ IF r.ret = 0
            THEN pc' = "done" /\ result' = Ok
            ELSE IF creation.method # "NoCreate" /\ posix_falls_back(r.err)
            THEN pc' = "open" /\ result' = result
            ELSE pc' = "done" /\ result' = Err(r.err)
  /\ UNCHANGED <<os, fds, creation, resolution, builder, path, handle, fs0>>

\* update_new_file / update_new_dir: FileHandle::open(path, 0 / O_DIRECTORY)
PosixFileHandleOpen ==
  /\ pc = "open"
  /\ Posix(os)
  /\ \E r \in libc_open(os, fs, fds, path, creation.item = "Directory") :
       /\ fs' = r.fs
       /\ fds' = r.fds
       /\ errno' = Errno(r.err)
       /\ log' = Logged("open", path, r.ret, r.err, TRUE)
       /\ IF posix_fd_ok(r.ret)
          THEN handle' = <<r.ret>> /\ pc' = "futimens" /\ result' = result
          ELSE handle' = handle /\ pc' = "done" /\ result' = Err(Errno(r.err))
  /\ UNCHANGED <<os, creation, resolution, builder, path, times, fs0>>

\* and_then(|fd| futimens(builder, &fd))
PosixFutimens ==
  /\ pc = "futimens"
  /\ LET tms == posix_from_builder(builder)
         r == libc_futimens(os, fs, fds, handle[1], tms)
     IN  /\ times' = tms
         /\ fs' = r.fs
         /\ errno' = Errno(r.err)
         /\ log' = Logged("futimens", handle[1], -1, r.err, FALSE)
         /\ result' = IF r.ret = 0 THEN Ok ELSE Err(r.err)
         /\ pc' = "drop"
  /\ UNCHANGED <<os, fds, creation, resolution, builder, path, handle, fs0>>

\* impl Drop for FileHandle: close, and panic when it fails
PosixDrop ==
  /\ pc = "drop"
  /\ Posix(os)
  /\ LET r == libc_close(fds, handle[1])
     IN  /\ fds' = r.fds
         /\ errno' = Errno(r.err)
         /\ log' = Logged("close", handle[1], -1, r.err, FALSE)
         /\ result' = IF r.ret # 0 THEN Panic ELSE result
         /\ handle' = <<>>
         /\ pc' = "done"
  /\ UNCHANGED <<os, fs, creation, resolution, builder, path, times, fs0>>

(***************************************************************************)
(* The Windows backend, src/sys/windows.rs.                                *)
(***************************************************************************)
\* The creation disposition of the call's CreateFileW: OPEN_ALWAYS in
\* NonRecursive<File>::touch, OPEN_EXISTING in NoCreate::touch, which
\* NonRecursive<Directory>::touch and Recursive<I>::touch end in
windows_open_always(c) == c = [method |-> "NonRecursive", item |-> "File"]

\* Recursive<I>::touch: DirBuilder::new().recursive(true).create(parent),
\* then NoCreate::touch
WindowsRecursive ==
  /\ pc = "recursive"
  /\ os = "windows"
  /\ LET r == create_dir_all(os, fs, Parent(path), TRUE)
     IN  /\ fs' = r.fs
         /\ errno' = Errno(r.err)
         /\ log' = Logged("create_dir_all", Parent(path), -1, r.err, FALSE)
         /\ IF r.err = "ok"
            THEN pc' = "open" /\ result' = result
            ELSE pc' = "done" /\ result' = Err(r.err)
  /\ UNCHANGED <<os, fds, creation, resolution, builder, path, times, handle,
                 fs0>>

\* NonRecursive<Directory>::touch: CreateDirectoryW, its result dropped,
\* then NoCreate::touch
WindowsCreateDirectory ==
  /\ pc = "create_directory"
  /\ LET r == MakeDir(os, fs, path, TRUE)
     IN  /\ fs' = r.fs
         /\ errno' = Errno(r.err)
         /\ log' = Logged("CreateDirectoryW", path, -1, r.err, TRUE)
  /\ pc' = "open"
  /\ UNCHANGED <<os, fds, creation, resolution, builder, path, times, handle,
                 result, fs0>>

\* FileTimes::from_builder(builder), then FileHandle::open(path, disp, flags)
WindowsFileHandleOpen ==
  /\ pc = "open"
  /\ os = "windows"
  /\ IF windows_systemtime_panics(builder.accessed)
          \/ windows_systemtime_panics(builder.modified)
     THEN /\ pc' = "done"
          /\ result' = Panic
          /\ UNCHANGED <<fs, fds, errno, times, handle, log>>
     ELSE LET r == CreateFileW(fs, fds, path, windows_open_always(creation),
                               resolution = "UpdateSymlinks")
          IN  /\ times' = windows_from_builder(builder)
              /\ fs' = r.fs
              /\ fds' = r.fds
              /\ errno' = Errno(r.err)
              /\ log' = Logged("CreateFileW", path, r.ret, r.err,
                               windows_open_always(creation))
              /\ IF r.ret = -1
                 THEN handle' = handle /\ pc' = "done" /\ result' = Err(r.err)
                 ELSE handle' = <<r.ret>> /\ pc' = "update_timestamps"
                      /\ result' = result
  /\ UNCHANGED <<os, creation, resolution, builder, path, fs0>>

\* and_then(|mut f| f.update_timestamps(times)): SetFileTime
WindowsUpdateTimestamps ==
  /\ pc = "update_timestamps"
  /\ LET r == SetFileTime(fs, fds, handle[1], times)
     IN  /\ fs' = r.fs
         /\ errno' = Errno(r.err)
         /\ log' = Logged("SetFileTime", handle[1], -1, r.err, FALSE)
         /\ result' = IF r.ret = 0 THEN Err(r.err) ELSE Ok
  /\ pc' = "drop"
  /\ UNCHANGED <<os, fds, creation, resolution, builder, path, times, handle,
                 fs0>>

\* impl Drop for FileHandle: CloseHandle, and panic when it fails
WindowsDrop ==
  /\ pc = "drop"
  /\ os = "windows"
  /\ LET r == CloseHandle(fds, handle[1])
     IN  /\ fds' = r.fds
         /\ errno' = Errno(r.err)
         /\ log' = Logged("CloseHandle", handle[1], -1, r.err, FALSE)
         /\ result' = IF r.ret = 0 THEN Panic ELSE result
  /\ handle' = <<>>
  /\ pc' = "done"
  /\ UNCHANGED <<os, fs, creation, resolution, builder, path, times, fs0>>

(***************************************************************************)
(* The specification of the touch calls.                                   *)
(***************************************************************************)
TouchAny ==
  \E c \in CreationMethods, r \in ResolutionMethods, b \in Builders,
     p \in Paths : Touch(c, r, b, p)

Next ==
  \/ TouchAny
  \/ PosixRecursive
  \/ PosixUpdateExisting
  \/ PosixFileHandleOpen
  \/ PosixFutimens
  \/ PosixDrop
  \/ WindowsRecursive
  \/ WindowsCreateDirectory
  \/ WindowsFileHandleOpen
  \/ WindowsUpdateTimestamps
  \/ WindowsDrop

Spec == Init /\ [][Next]_vars

(***************************************************************************)
(* What the claims speak of.                                               *)
(***************************************************************************)
\* The call has returned (or panicked).
Returned == pc = "done"

\* Entry i of the log is the existing-path update: utimensat on POSIX, the
\* OPEN_EXISTING CreateFileW on Windows.
IsExistingUpdate(i) ==
  \/ log[i].call = "utimensat"
  \/ log[i].call = "CreateFileW" /\ ~log[i].creates

\* Entry i of the log is a creation call on the target path: open with
\* O_CREAT, CreateFileW with OPEN_ALWAYS, CreateDirectoryW.
IsCreation(i) == log[i].creates

Creating == creation.method # "NoCreate"

(***************************************************************************)
(* C1.  Under a creating policy, when the existing-path update fails with  *)
(* an error other than NotFound, touch makes no creation call after it and *)
(* returns that error: the creation step follows a failed existing-path    *)
(* update only when the failure was NotFound.                              *)
(***************************************************************************)
C1_CreationOnlyOnNotFound ==
  Creating =>
    \A j \in DOMAIN log :
      (IsExistingUpdate(j) /\ log[j].err # "ok"
         /\ ErrorKind(log[j].err) # "NotFound")
      => /\ \A i \in DOMAIN log : i > j => ~IsCreation(i)
         /\ Returned => result = Err(log[j].err)

(***************************************************************************)
(* C2.  In every call the first operation issued on the target path is the *)
(* existing-only update, and no creation call on the target path is made   *)
(* before an existing-only update has reported absence.                    *)
(***************************************************************************)
C2_ExistingUpdateFirst ==
  \A i \in DOMAIN log :
    /\ (log[i].arg = path /\ \A k \in 1..(i - 1) : log[k].arg # path)
         => IsExistingUpdate(i)
    /\ IsCreation(i) =>
         \E j \in 1..(i - 1) :
           /\ IsExistingUpdate(j)
           /\ log[j].err \in {"ENOENT", "ERROR_FILE_NOT_FOUND",
                              "ERROR_PATH_NOT_FOUND"}

\* What a metadata read of path q returns for the accessed or the modified
\* time, as a SystemTime.
metadata_time(f, q, field) ==
  IF Posix(os) THEN posix_metadata_time(f[q][field])
  ELSE windows_metadata_time(f[q][field])

\* Entry q of the file system carries every time the Builder holds, and keeps
\* the time it had at the start of the call for every field the Builder
\* leaves empty.
TimesApplied(q) ==
  \A field \in {"accessed", "modified"} :
    LET t == IF field = "accessed" THEN "atime" ELSE "mtime"
    IN  IF builder[field].some
        THEN metadata_time(fs, q, t) = builder[field]
        ELSE fs[q][t] = fs0[q][t]

\* Entry q has the accessed and modified times it had at the start of the call.
TimesKept(q) ==
  /\ fs[q].atime = fs0[q].atime
  /\ fs[q].mtime = fs0[q].mtime

\* The path is absent at the start of the call and its parent is a
\* directory that can be reached.
AbsentUnderParent ==
  /\ PrefixError(fs0, path) = "ok"
  /\ fs0[path].kind = "none"

(***************************************************************************)
(* C3.  With NoCreate, touch on a path that does not exist returns a       *)
(* NotFound error for every Builder, the default one included, and leaves  *)
(* the file system as it was.                                              *)
(***************************************************************************)
C3_NoCreateNotFound ==
  (creation.method = "NoCreate" /\ AbsentUnderParent /\ Returned)
  => /\ result.status = "Err"
     /\ ErrorKind(result.err) = "NotFound"
     /\ fs = fs0

(***************************************************************************)
(* C4.  For an existing file or directory, a touch that returns Ok has set *)
(* each time the Builder holds to exactly that value and has left each     *)
(* time the Builder holds as None at the value it had before the call.     *)
(***************************************************************************)
C4_SuccessAppliesTimes ==
  (Returned /\ result = Ok /\ fs0[path].kind \in {"file", "dir"})
  => TimesApplied(path)

(***************************************************************************)
(* C5.  When the path is a symbolic link to an existing target, a call     *)
(* with FollowSymlinks changes nothing but the target's times and leaves   *)
(* the link's own entry as it was; a call with UpdateSymlinks changes      *)
(* nothing but the link's own times and leaves the target as it was.       *)
(***************************************************************************)
C5_LinkResolution ==
  (Returned /\ fs0[path].kind = "link"
     /\ fs0[fs0[path].target].kind \in {"file", "dir"})
  => LET touched == IF resolution = "FollowSymlinks"
                    THEN fs0[path].target ELSE path
     IN  /\ \A q \in Paths : q # touched => fs[q] = fs0[q]
         /\ fs[touched].kind = fs0[touched].kind
         /\ fs[touched].size = fs0[touched].size
         /\ fs[touched].target = fs0[touched].target

(***************************************************************************)
(* C6.  NonRecursive<File> on an absent path: when the parent directory    *)
(* exists the call returns Ok, the path is an empty regular file and it    *)
(* carries the Builder's times; when the parent directory is missing the   *)
(* call returns an error and creates no ancestor.                          *)
(***************************************************************************)
C6_NonRecursiveFile ==
  (Returned /\ creation = [method |-> "NonRecursive", item |-> "File"]
     /\ fs0[path].kind = "none")
  => /\ PrefixError(fs0, path) = "ok"
          => /\ result = Ok
             /\ fs[path].kind = "file"
             /\ fs[path].size = 0
             /\ \A field \in {"accessed", "modified"} :
                  builder[field].some =>
                    metadata_time(fs, path,
                        IF field = "accessed" THEN "atime" ELSE "mtime")
                      = builder[field]
     /\ (Len(path) > 1 /\ fs0[Parent(path)].kind = "none")
          => /\ result.status = "Err"
             /\ \A n \in 1..(Len(path) - 1) :
                  fs[SubSeq(path, 1, n)] = fs0[SubSeq(path, 1, n)]

(***************************************************************************)
(* C7.  Recursive<K> on an absent path with one or more missing ancestors  *)
(* returns Ok; afterwards every ancestor is a directory, the path itself   *)
(* is of kind K (a regular file for File, a directory for Directory) and   *)
(* it carries the Builder's times.                                         *)
(***************************************************************************)
C7_RecursiveCreates ==
  (Returned /\ creation.method = "Recursive"
     /\ Len(path) > 1
     /\ fs0[Parent(path)].kind = "none" /\ fs0[path].kind = "none"
     /\ \A n \in 1..(Len(path) - 1) :
          fs0[SubSeq(path, 1, n)].kind \in {"none", "dir"})
  => /\ result = Ok
     /\ \A n \in 1..(Len(path) - 1) : fs[SubSeq(path, 1, n)].kind = "dir"
     /\ fs[path].kind = IF creation.item = "File" THEN "file" ELSE "dir"
     /\ \A field \in {"accessed", "modified"} :
          builder[field].some =>
            metadata_time(fs, path,
                IF field = "accessed" THEN "atime" ELSE "mtime")
              = builder[field]

\* The entry the call is aimed at when the path exists: the path itself, or
\* the target of the link under FollowSymlinks.
Target ==
  IF fs0[path].kind = "link" /\ resolution = "FollowSymlinks"
  THEN fs0[path].target ELSE path

(***************************************************************************)
(* C8.  A call on an existing path is all or nothing: it returns Ok with   *)
(* every requested time applied, or it does not return Ok and neither the  *)
(* accessed nor the modified time of the target has changed.               *)
(***************************************************************************)
C8_AllOrNothing ==
  (Returned /\ fs0[path].kind # "none" /\ fs0[Target].kind # "none")
  => IF result = Ok THEN TimesApplied(Target) ELSE TimesKept(Target)

\* The descriptors and handles the library opened and still holds
Held == {h \in fds : h.at # <<>>}

(***************************************************************************)
(* C9.  When touch has returned, whatever it returned, no descriptor or    *)
(* handle the library opened is still open, and every descriptor or handle *)
(* an open call handed out has been closed exactly once.                   *)
(***************************************************************************)
C9_HandlesReleased ==
  Returned =>
    /\ Held = {}
    /\ \A i \in DOMAIN log :
         (log[i].call \in {"open", "CreateFileW"} /\ log[i].ret # -1)
         => Cardinality({k \in DOMAIN log :
                           /\ k > i
                           /\ log[k].call \in {"close", "CloseHandle"}
                           /\ log[k].arg = log[i].ret
                           /\ log[k].err = "ok"}) = 1

(***************************************************************************)
(* The conversion of a Builder on its own: FileTimes::from_builder of the  *)
(* Windows backend applied to Builders drawn from timestamps around the    *)
(* Unix epoch, around 1601-01-01, across the 2^32-second boundary and far  *)
(* in the future, with sub-second parts on both sides of a tick.           *)
(***************************************************************************)
\* Whole seconds of the distance from the Unix epoch: 0, 1, 2, 429,
\* 1700000000, 11644473599, 11644473600, 11644473601, 2^32, 200 * 2^32
ConversionSecs ==
  {U64FromNat(0), U64FromNat(1), U64FromNat(2), U64FromNat(429),
   U64FromNat(1700000000),
   <<37119, 46608, 2, 0>>, <<37120, 46608, 2, 0>>, <<37121, 46608, 2, 0>>,
   <<0, 0, 1, 0>>, <<0, 0, 200, 0>>}

\* Sub-second nanoseconds of the distance from the Unix epoch
ConversionNanos == {0, 1, 99, 100, 101, 500 * 1000 * 1000, NanosPerSec - 1}

\* A SystemTime is never zero seconds before the epoch.
ConversionTimes ==
  {None} \cup
  ({Some(b, sec, n) : b \in BOOLEAN, sec \in ConversionSecs,
                       n \in ConversionNanos}
     \ {Some(TRUE, U64Zero, 0)})

InitTimes ==
  /\ os = "windows"
  /\ fs \in {g \in InitialFs(os) : g[<<"a">>].kind = "none"
                                    /\ g[<<"l">>].target = <<"f">>}
  /\ fds = {}
  /\ errno = "ok"
  /\ pc = "idle"
  /\ creation = [method |-> "NoCreate", item |-> "None"]
  /\ resolution = "FollowSymlinks"
  /\ builder \in [accessed : ConversionTimes, modified : ConversionTimes]
  /\ path = <<"f">>
  /\ times = <<>>
  /\ handle = <<>>
  /\ result = NoResult
  /\ log = <<>>
  /\ fs0 = fs

\* FileTimes::from_builder; a timestamp before 1601-01-01 makes it panic.
FromBuilder ==
  /\ pc = "idle"
  /\ ~Posix(os)
  /\ IF windows_systemtime_panics(builder.accessed)
        \/ windows_systemtime_panics(builder.modified)
     THEN times' = times /\ result' = Panic
     ELSE times' = windows_from_builder(builder) /\ result' = result
  /\ pc' = "converted"
  /\ UNCHANGED <<os, fs, fds, errno, creation, resolution, builder, path,
                 handle, log, fs0>>

NextTimes == FromBuilder

SpecTimes == InitTimes /\ [][NextTimes]_vars

\* The signed offset of a present timestamp from the Unix epoch, moved to
\* the 1601 origin: whole seconds s + 11,644,473,600 (floor) and the
\* sub-second nanoseconds n, 0 <= n < 10^9.
OffsetSince1601(time) ==
  IF ~time.before
  THEN [secs |-> U64Add(time.secs, unix_epoch.secs).val, nanos |-> time.nanos]
  ELSE IF time.nanos = 0
  THEN [secs |-> U64Sub(unix_epoch.secs, time.secs).val, nanos |-> 0]
  ELSE [secs |-> U64Sub(U64Sub(unix_epoch.secs, time.secs).val,
                        U64FromNat(1)).val,
        nanos |-> NanosPerSec - time.nanos]

\* 116,444,736,000,000,000 = 413 * 2^48 + 45534 * 2^32 + 54590 * 2^16 + 32768
EpochTicks == <<32768, 54590, 45534, 413>>

\* The FILETIME ft encodes the timestamp time as the claim C10 says.
EncodesTicks(time, ft) ==
  LET off   == OffsetSince1601(time)
      ticks == FiletimeU64(ft)
      q1    == U64DivSmall(ticks, 10000)
      q2    == U64DivSmall(q1.quot, 1000)
      want  == U64Add(U64MulSmall(U64MulSmall(off.secs, 1000), 10000),
                      U64FromNat(off.nanos \div 100)).val
  IN  /\ q2.quot = off.secs
      /\ q2.rem * 10000 + q1.rem = off.nanos \div 100
      /\ ft.dwLowDateTime = <<want[1], want[2]>>
      /\ ft.dwHighDateTime = <<want[3], want[4]>>
      /\ (time = Some(FALSE, U64Zero, 0) => ticks = EpochTicks)

(***************************************************************************)
(* C10.  On the Windows backend, every present timestamp at or after       *)
(* 1601-01-01 is encoded as (s + 11,644,473,600) * 10,000,000 +            *)
(* floor(n / 100) ticks, s and n being the whole seconds and sub-second    *)
(* nanoseconds of its signed offset from the Unix epoch: the epoch itself  *)
(* is 116,444,736,000,000,000 ticks, the sub-tick part is truncated, and   *)
(* the low and high words of the FILETIME are the count modulo 2^32 and    *)
(* the count divided by 2^32.                                              *)
(***************************************************************************)
C10_WindowsTicks ==
  pc = "converted" /\ result # Panic =>
    /\ builder.accessed.some => EncodesTicks(builder.accessed, times[1])
    /\ builder.modified.some => EncodesTicks(builder.modified, times[2])

\* The epoch and a time 1.000000099 s before it have been converted.
C10_Witness ==
  /\ pc = "converted" /\ result # Panic
  /\ builder.accessed = Some(FALSE, U64Zero, 0)
  /\ FiletimeU64(times[1]) = EpochTicks
  /\ builder.modified = Some(TRUE, U64FromNat(1), 99)
  /\ FiletimeU64(times[2]) # EpochTicks

(***************************************************************************)
(* The conversions of both backends on their own: FileTimes::from_builder  *)
(* of the POSIX backend and of the Windows backend, applied to the same    *)
(* Builders.                                                               *)
(***************************************************************************)
InitPosixTimes ==
  /\ os \in {"linux", "unix"}
  /\ fs \in {g \in InitialFs(os) : g[<<"a">>].kind = "none"
                                    /\ g[<<"l">>].target = <<"f">>}
  /\ fds = StdFds
  /\ errno = "ok"
  /\ pc = "idle"
  /\ creation = [method |-> "NoCreate", item |-> "None"]
  /\ resolution = "FollowSymlinks"
  /\ builder \in [accessed : ConversionTimes, modified : ConversionTimes]
  /\ path = <<"f">>
  /\ times = <<>>
  /\ handle = <<>>
  /\ result = NoResult
  /\ log = <<>>
  /\ fs0 = fs

\* FileTimes::from_builder of the POSIX backend
PosixFromBuilder ==
  /\ pc = "idle"
  /\ Posix(os)
  /\ times' = posix_from_builder(builder)
  /\ pc' = "converted"
  /\ UNCHANGED <<os, fs, fds, errno, creation, resolution, builder, path,
                 handle, result, log, fs0>>

NextAllTimes ==
  \/ FromBuilder
  \/ PosixFromBuilder

SpecAllTimes == (InitTimes \/ InitPosixTimes) /\ [][NextAllTimes]_vars

\* The Builder's two fields in the order of the FileTimes
BuilderField(i) == IF i = 1 THEN builder.accessed ELSE builder.modified

\* The platform's "leave unchanged" value: tv_nsec = UTIME_OMIT on POSIX,
\* both words 0xFFFFFFFF on Windows.
IsSentinel(ft) ==
  IF Posix(os)
  THEN ft.tv_nsec = UTIME_OMIT
  ELSE /\ ft.dwLowDateTime = <<Limb - 1, Limb - 1>>
       /\ ft.dwHighDateTime = <<Limb - 1, Limb - 1>>

(***************************************************************************)
(* C11.  On both backends and for each of the two fields on its own, an    *)
(* absent (None) timestamp is encoded as the platform's "leave unchanged"  *)
(* value and no present (Some) timestamp is encoded as that value.         *)
(***************************************************************************)
C11_AbsentIsSentinel ==
  (pc = "converted" /\ result # Panic) =>
    \A i \in {1, 2} : IsSentinel(times[i]) <=> ~BuilderField(i).some

\* A Windows conversion of a Builder with only the modified time present
C11_Witness ==
  /\ pc = "converted" /\ result # Panic
  /\ os = "windows"
  /\ ~builder.accessed.some /\ builder.modified.some
  /\ IsSentinel(times[1]) /\ ~IsSentinel(times[2])

(***************************************************************************)
(* C16.  On the POSIX backend a present timestamp at or after the epoch is *)
(* encoded as (whole seconds, sub-second nanoseconds) of its offset, and   *)
(* one before the epoch as the negated whole seconds and the negated       *)
(* sub-second nanoseconds of its distance to the epoch, so tv_sec * 10^9 + *)
(* tv_nsec is the signed nanosecond offset from the epoch.                 *)
(***************************************************************************)
C16_PosixEncoding ==
  (pc = "converted" /\ Posix(os)) =>
    \A i \in {1, 2} :
      LET t  == BuilderField(i)
          ts == times[i]
      IN  t.some =>
            /\ ts.tv_sec.mag = t.secs
            /\ ts.tv_sec.neg = (t.before /\ t.secs # U64Zero)
            /\ ts.tv_nsec = IF t.before THEN 0 - t.nanos ELSE t.nanos

\* A time 1.000000099 s before the epoch has been encoded as (-1, -99).
C16_Witness ==
  /\ pc = "converted" /\ Posix(os)
  /\ builder.accessed = Some(TRUE, U64FromNat(1), 99)
  /\ times[1].tv_sec = [neg |-> TRUE, mag |-> U64FromNat(1)]
  /\ times[1].tv_nsec = 0 - 99
  /\ builder.modified = Some(FALSE, U64FromNat(429), 101)
  /\ times[2].tv_nsec = 101

(***************************************************************************)
(* C18.  Every timespec the POSIX backend hands to utimensat or futimens   *)
(* is well formed: for every Builder value its tv_nsec is UTIME_OMIT or    *)
(* lies in 0..999,999,999.                                                 *)
(***************************************************************************)
C18_TimespecWellFormed ==
  (pc = "converted" /\ Posix(os)) =>
    \A i \in {1, 2} : TimespecValid(times[i])

(***************************************************************************)
(* The Builder of src/lib.rs on its own: Builder::new() followed by calls  *)
(* of its setters.  The log holds the setter calls made so far.            *)
(***************************************************************************)
\* Longest chain of setter calls on one Builder
MaxSetters == 3

\* enum CreationTarget and its Default
CreationTargets == {"None", "File"}

creation_target_default == "None"

\* Builder::new()
builder_new ==
  [accessed |-> None, modified |-> None, follow_symlinks |-> FALSE,
   creation_target |-> creation_target_default]

\* A setter that also puts the modified time back to None
accessed_clearing(self, time) ==
  [self EXCEPT !.accessed = time, !.modified = None]

\* Builder::accessed
accessed(self, time) == [self EXCEPT !.accessed = time]

\* Builder::modified
modified(self, time) == [self EXCEPT !.modified = time]

\* Builder::follow_symlinks
follow_symlinks(self, follow) == [self EXCEPT !.follow_symlinks = follow]

\* Builder::creation_target
creation_target(self, target) == [self EXCEPT !.creation_target = target]

InitBuilder ==
  /\ os = "linux"
  /\ fs \in {g \in InitialFs(os) : g[<<"a">>].kind = "none"
                                    /\ g[<<"l">>].target = <<"f">>}
  /\ fds = StdFds
  /\ errno = "ok"
  /\ pc = "builder"
  /\ creation = [method |-> "NoCreate", item |-> "None"]
  /\ resolution = "FollowSymlinks"
  /\ builder = builder_new
  /\ path = <<"f">>
  /\ times = <<>>
  /\ handle = <<>>
  /\ result = NoResult
  /\ log = <<>>
  /\ fs0 = fs

\* One setter call: the Builder it leaves and its entry in the log
SetterCall(name, arg, b) ==
  /\ pc = "builder"
  /\ Len(log) < MaxSetters
  /\ builder' = b
  /\ log' = Append(log, [call |-> name, arg |-> arg])
  /\ UNCHANGED <<os, fs, fds, errno, pc, creation, resolution, path, times,
                 handle, result, fs0>>

SetAccessed ==
  \E time \in {None} \cup TimeValues :
    SetterCall("accessed", time, accessed(builder, time))

SetModified ==
  \E time \in {None} \cup TimeValues :
    SetterCall("modified", time, modified(builder, time))

SetFollowSymlinks ==
  \E follow \in BOOLEAN :
    SetterCall("follow_symlinks", follow, follow_symlinks(builder, follow))

SetCreationTarget ==
  \E target \in CreationTargets :
    SetterCall("creation_target", target, creation_target(builder, target))

NextBuilder ==
  \/ SetAccessed
  \/ SetModified
  \/ SetFollowSymlinks
  \/ SetCreationTarget

SpecBuilder == InitBuilder /\ [][NextBuilder]_vars

\* The argument of the most recent call of the setter of a field, or the
\* field's default when the setter was never called
LastSet(field) ==
  LET calls == {i \in DOMAIN log : log[i].call = field}
  IN  IF calls = {}
      THEN builder_new[field]
      ELSE log[CHOOSE i \in calls : \A j \in calls : j <= i].arg

(***************************************************************************)
(* C12.  Builder::new() has both timestamps absent, follow_symlinks =      *)
(* false and creation target None; after any sequence of setter calls each *)
(* field equals the argument of the most recent call of its own setter, or *)
(* its default when that setter was never called, so no setter changes a   *)
(* field other than its own.                                               *)
(***************************************************************************)
C12_LastSetterWins ==
  pc = "builder" =>
    /\ log = <<>> =>
         /\ ~builder.accessed.some /\ ~builder.modified.some
         /\ builder.follow_symlinks = FALSE
         /\ builder.creation_target = "None"
    /\ \A field \in {"accessed", "modified", "follow_symlinks",
                     "creation_target"} :
         builder[field] = LastSet(field)

\* modified was set, then accessed was set twice: the second value of
\* accessed is kept and modified still has its value.
C12_Witness ==
  /\ pc = "builder"
  /\ Len(log) = 3
  /\ log[1].call = "modified" /\ log[1].arg.some
  /\ log[2].call = "accessed" /\ log[3].call = "accessed"
  /\ log[2].arg # log[3].arg
  /\ builder.accessed = log[3].arg
  /\ builder.modified = log[1].arg

(***************************************************************************)
(* C13.  The POSIX FileHandle::open takes a non-negative descriptor from   *)
(* the OS open call as success and returns a handle wrapping it, and takes *)
(* a negative return value as failure: it returns the OS error and builds  *)
(* no handle.                                                              *)
(***************************************************************************)
C13_NonNegativeIsSuccess ==
  (log # <<>> /\ log[Len(log)].call = "open") =>
    LET opened == log[Len(log)]
    IN  IF opened.ret >= 0
        THEN handle = <<opened.ret>> /\ result = NoResult
        ELSE handle = <<>> /\ result = Err(opened.err)

\* The creation calls and the existing-path updates of the log
CreationCalls == {i \in DOMAIN log : IsCreation(i)}

ExistingUpdates == {i \in DOMAIN log : IsExistingUpdate(i)}

(***************************************************************************)
(* C14.  Within one touch call nothing is retried: the existing-path       *)
(* update is issued at most once and the creation step at most once, and   *)
(* when the creation step fails (other than a directory creation finding   *)
(* the path already there) its error is the final result of touch.         *)
(***************************************************************************)
C14_NoRetry ==
  /\ Cardinality(ExistingUpdates) <= 1
  /\ Cardinality(CreationCalls) <= 1
  /\ Returned =>
       \A i \in CreationCalls :
         (log[i].err # "ok" /\ log[i].err # "ERROR_ALREADY_EXISTS")
         => result = Err(log[i].err)

(***************************************************************************)
(* C15.  NonRecursive<Directory> on an absent path whose parent directory  *)
(* exists returns Ok on both backends; afterwards the path is a directory, *)
(* not a regular file, and carries the times the Builder asked for.        *)
(***************************************************************************)
C15_NonRecursiveDirectory ==
  (Returned /\ creation = [method |-> "NonRecursive", item |-> "Directory"]
     /\ AbsentUnderParent)
  => /\ result = Ok
     /\ fs[path].kind = "dir"
     /\ \A field \in {"accessed", "modified"} :
          builder[field].some =>
            metadata_time(fs, path,
                IF field = "accessed" THEN "atime" ELSE "mtime")
              = builder[field]

(***************************************************************************)
(* C17.  touch never changes the content or the length of a regular file   *)
(* that exists when the call starts, under every creation method and       *)
(* resolution method and whatever error the existing-path update returns:  *)
(* an existing file is never truncated or recreated.                       *)
(***************************************************************************)
C17_NeverTruncates ==
  \A q \in Paths :
    fs0[q].kind = "file" =>
      /\ fs[q].kind = "file"
      /\ fs[q].size = fs0[q].size

=============================================================================
